---- MODULE Spec2Model ----
(***************************************************************************)
(* Model of azul-plugin-repeated-bytes.                                    *)
(*                                                                         *)
(*   repeated_bytes.py  the periodicity search: two validators, the width  *)
(*                      check, the candidate generator, the tail scanner   *)
(*                      and data_repeats(), which drives them;             *)
(*   main.py            AzulPluginRepeatedBytes.execute(), which turns the *)
(*                      result of data_repeats() into features.            *)
(*                                                                         *)
(* A byte buffer is a sequence over Byte.  Python's None is the integer    *)
(* None below (no width, no offset and no attempt count is negative, and   *)
(* -1 is taken by the "aborted" result).                                   *)
(*                                                                         *)
(* Scaling.  The source sets SEARCH_BLOCK_SIZE = 32, MAXIMUM_WIDTH_ATTEMPTS*)
(* = 1024, MIN_BYTES_REPEATED = 64 and MAX_STRING_FEATURE_SIZE = 32.  The  *)
(* functions are parametric in them, and buffers longer than 32 bytes      *)
(* cannot be enumerated, so the model runs the same code with small values *)
(* of these four parameters; they are bounds of the model.                 *)
(***************************************************************************)
EXTENDS Integers, Sequences, FiniteSets

\* ------------------------------------------------------------------ bounds

\* Longest buffer enumerated.
MaxLen == 9

\* Largest byte value: buffers are sequences over 0..MaxByte.
MaxByte == 1

\* Largest repeat count n handed to the two validators directly.
MaxN == 9

\* Longest block of distinct bytes that is extended cyclically (the test
\* stops at SEARCH_BLOCK_SIZE * 3 - 1).
MaxCore == 9

\* Largest finite attempt ceiling tried (the source's default is 1024).
MaxAttempts == 3

\* repeated_bytes.py:9 sets 32; scaled.
SEARCH_BLOCK_SIZE == 3

\* main.py:12 sets 64; scaled.
MIN_BYTES_REPEATED == 2

\* main.py:17 sets 32; scaled.
MAX_STRING_FEATURE_SIZE == 2

\* ------------------------------------------------------- program constants

\* main.py:13, MIN_RATIO = 1.25 = MIN_RATIO_NUM / MIN_RATIO_DEN.
MIN_RATIO_NUM == 5
MIN_RATIO_DEN == 4

\* Python's None (returned by data_repeats, and the value --force gives
\* MAXIMUM_WIDTH_ATTEMPTS).
None == -2

\* The "search aborted" result of data_repeats.
ABORTED == -1

\* ------------------------------------------------------------------ values

Byte == 0..MaxByte

\* Every buffer of at most MaxLen bytes over Byte.
ShortBuffers == UNION {[1..n -> Byte] : n \in 0..MaxLen}

\* bytes(range(core_size)) extended cyclically to full_size bytes: the inputs
\* test_data_repeats builds (test_repeated_bytes.py:150-151).
Ramp(core_size, full_size) == [i \in 1..full_size |-> (i - 1) % core_size]

\* test_repeated_bytes.py:148-149: core_size in range(1, SEARCH_BLOCK_SIZE * 3)
\* and full_size in range(core_size, core_size * 3); here core_size runs to
\* MaxCore.
Ramps ==
    UNION {{Ramp(core_size, full_size) :
                full_size \in core_size..(core_size * 3 - 1)} :
           core_size \in 1..MaxCore}

Buffers == ShortBuffers \cup Ramps

Min(S) == CHOOSE x \in S : \A y \in S : x <= y

Max(S) == CHOOSE x \in S : \A y \in S : x >= y

\* Python's s[lo:hi] for 0 <= lo and 0 <= hi (indices are clamped to len(s)).
PySlice(s, lo, hi) ==
    SubSeq(s, Min({lo, Len(s)}) + 1, Min({hi, Len(s)}))

\* Python's s[-r:] for r > 0.
PySuffix(s, r) == SubSeq(s, Max({Len(s) - r, 0}) + 1, Len(s))

\* Python's s[:-r] for r > 0.
PyDropSuffix(s, r) == SubSeq(s, 1, Max({Len(s) - r, 0}))

\* Mutant: line 127 searches from the right, data.rfind(pattern, offset + 1).
PyFind_from_right(data, sub, start) ==
    LET hits == {i \in start..(Len(data) - Len(sub)) :
                     PySlice(data, i, i + Len(sub)) = sub}
    IN  IF hits = {} THEN -1 ELSE Max(hits)

\* Python's bytes.find(sub, start): the lowest index i >= start at which sub
\* occurs in data, -1 when there is none.
PyFind(data, sub, start) ==
    LET hits == {i \in start..(Len(data) - Len(sub)) :
                     PySlice(data, i, i + Len(sub)) = sub}
    IN  IF hits = {} THEN -1 ELSE Min(hits)

\* ------------------------------------------------------- repeated_bytes.py

\* Mutant: lines 26-27 (the divisibility test) left out.
data_repeats_exactly_n_times_no_length_test(data, n) ==
    LET chunksize == Len(data) \div n
    IN  \A i \in 1..(n - 1) :
            PySlice(data, 0, chunksize)
                = PySlice(data, chunksize * i, chunksize * (i + 1))

\* data_repeats_exactly_n_times(data, n): the length must divide by n, and
\* every chunk 1..n-1 must equal chunk 0.
data_repeats_exactly_n_times(data, n) ==
    IF Len(data) % n # 0
    THEN FALSE
    ELSE LET chunksize == Len(data) \div n
         IN  \A i \in 1..(n - 1) :
                 PySlice(data, 0, chunksize)
                     = PySlice(data, chunksize * i, chunksize * (i + 1))

\* The prime factors of n with multiplicity, ascending: what the loop over
\* pyprimesieve.factorize(n) collects in prime_factors.
RECURSIVE TrialDivide(_, _)
TrialDivide(n, p) ==
    IF n < 2 THEN <<>>
    ELSE IF n % p = 0 THEN <<p>> \o TrialDivide(n \div p, p)
    ELSE TrialDivide(n, p + 1)

\* The distinct primes of a factor list.
RECURSIVE DropRepeats(_)
DropRepeats(fs) ==
    IF Len(fs) < 2 THEN fs
    ELSE IF fs[1] = fs[2] THEN DropRepeats(Tail(fs))
    ELSE <<fs[1]>> \o DropRepeats(Tail(fs))

\* Mutant: line 63 without the multiplicity, prime_factors.append(p).
prime_factors_without_multiplicity(n) == DropRepeats(TrialDivide(n, 2))

prime_factors(n) == TrialDivide(n, 2)

\* The loop over prime_factors: validate at each prime, then keep one chunk.
RECURSIVE BreakDown(_, _)
BreakDown(data, factors) ==
    IF factors = <<>> THEN TRUE
    ELSE LET prime_factor == Head(factors)
             chunk_size == Len(data) \div prime_factor
         IN  IF ~ data_repeats_exactly_n_times(data, prime_factor)
             THEN FALSE
             ELSE BreakDown(PySlice(data, 0, chunk_size), Tail(factors))

data_repeats_exactly_n_times_recursive(data, n) ==
    BreakDown(data, prime_factors(n))

\* Mutant: lines 99-102 compare nothing, the remainder is carved off unseen.
data_repeats_with_width_ignores_remainder(data, width) ==
    LET num_full_repeats == Len(data) \div width
        remainder == Len(data) % width
    IN  IF remainder # 0
        THEN data_repeats_exactly_n_times_recursive(
                 PyDropSuffix(data, remainder), num_full_repeats)
        ELSE data_repeats_exactly_n_times_recursive(data, num_full_repeats)

\* Mutant: line 107 left out, the remainder is not carved off.
data_repeats_with_width_keeps_remainder(data, width) ==
    LET num_full_repeats == Len(data) \div width
        remainder == Len(data) % width
    IN  IF remainder # 0 /\ PySlice(data, 0, remainder) # PySuffix(data, remainder)
        THEN FALSE
        ELSE data_repeats_exactly_n_times_recursive(data, num_full_repeats)

\* data_repeats_with_width(data, width), for 1 <= width.
data_repeats_with_width(data, width) ==
    LET num_full_repeats == Len(data) \div width
        remainder == Len(data) % width
    IN  IF remainder # 0
        THEN IF PySlice(data, 0, remainder) # PySuffix(data, remainder)
             THEN FALSE
             ELSE data_repeats_exactly_n_times_recursive(
                      PyDropSuffix(data, remainder), num_full_repeats)
        ELSE data_repeats_exactly_n_times_recursive(data, num_full_repeats)

\* Mutant: line 127 resumes the search past the block just found,
\* data.find(pattern, offset + SEARCH_BLOCK_SIZE).
NextRepeatWidth_skips_block(data, offset) ==
    PyFind(data, PySlice(data, 0, SEARCH_BLOCK_SIZE), offset + SEARCH_BLOCK_SIZE)

\* One resumption of the generator find_possible_repeat_widths(data) whose
\* local offset is `offset`: the offset it yields next, -1 when it ends.
NextRepeatWidth(data, offset) ==
    PyFind(data, PySlice(data, 0, SEARCH_BLOCK_SIZE), offset + 1)

\* Everything the generator yields from local offset `offset` on, in order.
RECURSIVE YieldsFrom(_, _)
YieldsFrom(data, offset) ==
    LET o == NextRepeatWidth(data, offset)
    IN  IF o = -1 THEN <<>> ELSE <<o>> \o YieldsFrom(data, o)

\* list(find_possible_repeat_widths(data)).
find_possible_repeat_widths(data) == YieldsFrom(data, 0)

\* Mutant: line 158 returns the size of the repeated tail, not the width.
RECURSIVE ScanTail_returns_size(_, _)
ScanTail_returns_size(data, remainder_size) ==
    IF remainder_size < 1 THEN None
    ELSE IF remainder_size >= Len(data)
         THEN ScanTail_returns_size(data, remainder_size - 1)
    ELSE IF PySuffix(data, remainder_size) = PySlice(data, 0, remainder_size)
         THEN remainder_size
    ELSE ScanTail_returns_size(data, remainder_size - 1)

\* Mutant: line 149 scans upwards, range(1, SEARCH_BLOCK_SIZE): the smallest
\* matching tail wins.  Called with remainder_size = SEARCH_BLOCK_SIZE - 1.
RECURSIVE ScanUp(_, _)
ScanUp(data, s) ==
    IF s >= SEARCH_BLOCK_SIZE THEN None
    ELSE IF s >= Len(data) THEN ScanUp(data, s + 1)
    ELSE IF PySuffix(data, s) = PySlice(data, 0, s) THEN Len(data) - s
    ELSE ScanUp(data, s + 1)

ScanTail_ascending(data, remainder_size) == ScanUp(data, 1)

\* The loop of check_for_minimal_repeat_at_end from remainder_size down.
RECURSIVE ScanTail(_, _)
ScanTail(data, remainder_size) ==
    IF remainder_size < 1 THEN None
    ELSE IF remainder_size >= Len(data)
         THEN ScanTail(data, remainder_size - 1)
    ELSE IF PySuffix(data, remainder_size) = PySlice(data, 0, remainder_size)
         THEN Len(data) - remainder_size
    ELSE ScanTail(data, remainder_size - 1)

\* Mutant: line 149 starts one size short, range(SEARCH_BLOCK_SIZE - 2, 0, -1).
check_for_minimal_repeat_at_end_short_range(data) ==
    ScanTail(data, SEARCH_BLOCK_SIZE - 2)

check_for_minimal_repeat_at_end(data) ==
    ScanTail(data, SEARCH_BLOCK_SIZE - 1)

\* ------------------------------------------------------------------- state

VARIABLES
    data,                    \* the buffer under analysis
    MAXIMUM_WIDTH_ATTEMPTS,  \* the module global: a ceiling, or None
    pc,                      \* where the call in progress stands
    offset,                  \* data_repeats: the loop variable / the generator's offset
    attempts,                \* data_repeats: failed generator candidates so far
    tested,                  \* the generator offsets handed to data_repeats_with_width
    width,                   \* what data_repeats returned (None before it returns)
    exit,                    \* which return statement of data_repeats was taken
    features,                \* execute: << >>, or the one feature set emitted
    children,                \* execute: << >>, or the deduplicated child added
    fn,                      \* direct call: the function called
    arg,                     \* direct call: its second argument
    ret                      \* direct call: its return value

vars == <<data, MAXIMUM_WIDTH_ATTEMPTS, pc, offset, attempts, tested, width,
          exit, features, children, fn, arg, ret>>

callVars == <<fn, arg, ret>>

pluginVars == <<features, children>>

Idle ==
    /\ offset = 0
    /\ attempts = 0
    /\ tested = <<>>
    /\ width = None
    /\ exit = "none"
    /\ features = <<>>
    /\ children = <<>>
    /\ fn = "none"
    /\ arg = 0
    /\ ret = None

\* The plugin is handed a buffer; the module global holds a finite ceiling
\* (repeated_bytes.py:15) until main() clears it.
Init ==
    /\ data \in Buffers
    /\ MAXIMUM_WIDTH_ATTEMPTS \in 1..MaxAttempts
    /\ pc = "start"
    /\ Idle

\* ------------------------------------------------ repeated_bytes.py: main

\* main(), lines 266-269: --force clears the ceiling before data_repeats runs.
Force ==
    /\ pc = "start"
    /\ MAXIMUM_WIDTH_ATTEMPTS # None
    /\ MAXIMUM_WIDTH_ATTEMPTS' = None
    /\ UNCHANGED <<data, pc, offset, attempts, tested, width, exit>>
    /\ UNCHANGED pluginVars
    /\ UNCHANGED callVars

\* --------------------------------------- repeated_bytes.py: data_repeats

Return(w, at) ==
    /\ width' = w
    /\ exit' = at
    /\ pc' = "done"

\* Lines 177-178: fewer than two bytes.
ReturnTooShort ==
    /\ pc = "start"
    /\ Len(data) < 2
    /\ Return(None, "too_short")
    /\ UNCHANGED <<data, MAXIMUM_WIDTH_ATTEMPTS, offset, attempts, tested>>
    /\ UNCHANGED pluginVars
    /\ UNCHANGED callVars

\* Lines 183-185: a buffer no longer than the anchor is brute forced.
EnterBruteForce ==
    /\ pc = "start"
    /\ Len(data) >= 2
    /\ Len(data) <= SEARCH_BLOCK_SIZE
    /\ pc' = "brute"
    /\ offset' = 1
    /\ UNCHANGED <<data, MAXIMUM_WIDTH_ATTEMPTS, attempts, tested, width, exit>>
    /\ UNCHANGED pluginVars
    /\ UNCHANGED callVars

\* Lines 195-196: a longer buffer starts the generator with no attempts made.
EnterGenerator ==
    /\ pc = "start"
    /\ Len(data) > SEARCH_BLOCK_SIZE
    /\ pc' = "gen"
    /\ attempts' = 0
    /\ offset' = 0
    /\ UNCHANGED <<data, MAXIMUM_WIDTH_ATTEMPTS, tested, width, exit>>
    /\ UNCHANGED pluginVars
    /\ UNCHANGED callVars

\* Mutant: line 185 runs one width too far, range(1, len(data) + 1).
BruteFound_past_end ==
    /\ pc = "brute"
    /\ offset <= Len(data)
    /\ data_repeats_with_width(data, offset)
    /\ Return(offset, "brute_found")
    /\ UNCHANGED <<data, MAXIMUM_WIDTH_ATTEMPTS, offset, attempts, tested>>
    /\ UNCHANGED pluginVars
    /\ UNCHANGED callVars

\* Lines 185-187: the width tried matches.
BruteFound ==
    /\ pc = "brute"
    /\ offset < Len(data)
    /\ data_repeats_with_width(data, offset)
    /\ Return(offset, "brute_found")
    /\ UNCHANGED <<data, MAXIMUM_WIDTH_ATTEMPTS, offset, attempts, tested>>
    /\ UNCHANGED pluginVars
    /\ UNCHANGED callVars

\* Mutant: line 185 steps by two, range(1, len(data), 2).
BruteNext_step_two ==
    /\ pc = "brute"
    /\ offset < Len(data)
    /\ ~ data_repeats_with_width(data, offset)
    /\ offset' = offset + 2
    /\ UNCHANGED <<data, MAXIMUM_WIDTH_ATTEMPTS, pc, attempts, tested, width, exit>>
    /\ UNCHANGED pluginVars
    /\ UNCHANGED callVars

\* Lines 185-186: the width tried fails; on to the next of range(1, len(data)).
BruteNext ==
    /\ pc = "brute"
    /\ offset < Len(data)
    /\ ~ data_repeats_with_width(data, offset)
    /\ offset' = offset + 1
    /\ UNCHANGED <<data, MAXIMUM_WIDTH_ATTEMPTS, pc, attempts, tested, width, exit>>
    /\ UNCHANGED pluginVars
    /\ UNCHANGED callVars

\* Line 190: the range is exhausted.
BruteExhausted ==
    /\ pc = "brute"
    /\ offset >= Len(data)
    /\ Return(None, "brute_none")
    /\ UNCHANGED <<data, MAXIMUM_WIDTH_ATTEMPTS, offset, attempts, tested>>
    /\ UNCHANGED pluginVars
    /\ UNCHANGED callVars

\* Line 196, the generator ends: on to the tail scan of line 214.
GenExhausted ==
    /\ pc = "gen"
    /\ NextRepeatWidth(data, offset) = -1
    /\ pc' = "tail"
    /\ UNCHANGED <<data, MAXIMUM_WIDTH_ATTEMPTS, offset, attempts, tested, width, exit>>
    /\ UNCHANGED pluginVars
    /\ UNCHANGED callVars

\* Lines 196-200: the offset yielded is a width at which the data repeats.
GenFound ==
    LET o == NextRepeatWidth(data, offset)
    IN  /\ pc = "gen"
        /\ o # -1
        /\ data_repeats_with_width(data, o)
        /\ tested' = Append(tested, o)
        /\ offset' = o
        /\ Return(o, "gen_found")
        /\ UNCHANGED <<data, MAXIMUM_WIDTH_ATTEMPTS, attempts>>
        /\ UNCHANGED pluginVars
        /\ UNCHANGED callVars

\* Mutant: line 208 leaves the loop (break) instead of returning -1, so the
\* tail scan runs.
GenAbort_breaks ==
    LET o == NextRepeatWidth(data, offset)
    IN  /\ pc = "gen"
        /\ o # -1
        /\ ~ data_repeats_with_width(data, o)
        /\ attempts + 1 = MAXIMUM_WIDTH_ATTEMPTS
        /\ tested' = Append(tested, o)
        /\ offset' = o
        /\ attempts' = attempts + 1
        /\ pc' = "tail"
        /\ UNCHANGED <<data, MAXIMUM_WIDTH_ATTEMPTS, width, exit>>
        /\ UNCHANGED pluginVars
        /\ UNCHANGED callVars

\* Mutant: line 207 compares with >=, which a ceiling of None does not escape.
GenAbort_at_or_above ==
    LET o == NextRepeatWidth(data, offset)
    IN  /\ pc = "gen"
        /\ o # -1
        /\ ~ data_repeats_with_width(data, o)
        /\ attempts + 1 >= MAXIMUM_WIDTH_ATTEMPTS
        /\ tested' = Append(tested, o)
        /\ offset' = o
        /\ attempts' = attempts + 1
        /\ Return(ABORTED, "abort")
        /\ UNCHANGED <<data, MAXIMUM_WIDTH_ATTEMPTS>>
        /\ UNCHANGED pluginVars
        /\ UNCHANGED callVars

\* Lines 196-208: the offset yielded fails and the ceiling is reached.
GenAbort ==
    LET o == NextRepeatWidth(data, offset)
    IN  /\ pc = "gen"
        /\ o # -1
        /\ ~ data_repeats_with_width(data, o)
        /\ attempts + 1 = MAXIMUM_WIDTH_ATTEMPTS
        /\ tested' = Append(tested, o)
        /\ offset' = o
        /\ attempts' = attempts + 1
        /\ Return(ABORTED, "abort")
        /\ UNCHANGED <<data, MAXIMUM_WIDTH_ATTEMPTS>>
        /\ UNCHANGED pluginVars
        /\ UNCHANGED callVars

\* Mutant: line 206 left out, a failed candidate is not counted.
GenNext_not_counted ==
    LET o == NextRepeatWidth(data, offset)
    IN  /\ pc = "gen"
        /\ o # -1
        /\ ~ data_repeats_with_width(data, o)
        /\ attempts + 1 # MAXIMUM_WIDTH_ATTEMPTS
        /\ tested' = Append(tested, o)
        /\ offset' = o
        /\ UNCHANGED <<data, MAXIMUM_WIDTH_ATTEMPTS, pc, attempts, width, exit>>
        /\ UNCHANGED pluginVars
        /\ UNCHANGED callVars

\* Lines 196-207: the offset yielded fails, the ceiling is not reached.
GenNext ==
    LET o == NextRepeatWidth(data, offset)
    IN  /\ pc = "gen"
        /\ o # -1
        /\ ~ data_repeats_with_width(data, o)
        /\ attempts + 1 # MAXIMUM_WIDTH_ATTEMPTS
        /\ tested' = Append(tested, o)
        /\ offset' = o
        /\ attempts' = attempts + 1
        /\ UNCHANGED <<data, MAXIMUM_WIDTH_ATTEMPTS, pc, width, exit>>
        /\ UNCHANGED pluginVars
        /\ UNCHANGED callVars

\* Mutant: lines 214-216 left out, an exhausted generator means "not found".
TailScan_left_out ==
    /\ pc = "tail"
    /\ Return(None, "tail_none")
    /\ UNCHANGED <<data, MAXIMUM_WIDTH_ATTEMPTS, offset, attempts, tested>>
    /\ UNCHANGED pluginVars
    /\ UNCHANGED callVars

\* Lines 214-219: the tail scan; a width that is truthy is returned.
TailScan ==
    LET w == check_for_minimal_repeat_at_end(data)
    IN  /\ pc = "tail"
        /\ IF w # None /\ w # 0
           THEN Return(w, "tail_found")
           ELSE Return(None, "tail_none")
        /\ UNCHANGED <<data, MAXIMUM_WIDTH_ATTEMPTS, offset, attempts, tested>>
        /\ UNCHANGED pluginVars
        /\ UNCHANGED callVars

\* ------------------------------------------------------ main.py: execute

\* Mutant: line 58 joins the two tests with `and`, so that meeting either
\* threshold is enough (as the comment on lines 54-57 has it).
FeaturesFor_either_threshold(sample_data, w) ==
    LET num_repeated_bytes == Len(sample_data) - w
        deduplicated == PySlice(sample_data, 0, w)
        asString == Len(deduplicated) <= MAX_STRING_FEATURE_SIZE
    IN  IF /\ Len(sample_data) * MIN_RATIO_DEN < MIN_RATIO_NUM * w
           /\ num_repeated_bytes < MIN_BYTES_REPEATED
        THEN [features |-> <<>>, children |-> <<>>]
        ELSE [features |->
                 << [rep_byte_data_size   |-> w,
                     rep_byte_excess_size |-> num_repeated_bytes,
                     rep_byte_ratio       |-> <<Len(sample_data), w>>,
                     tag                  |-> "repeated_bytes",
                     rep_byte_data        |->
                         IF asString THEN <<[repr_of |-> deduplicated]>>
                                     ELSE <<>>] >>,
              children |-> IF asString THEN <<>> ELSE <<deduplicated>>]

\* Lines 49-84, reached with a width that is neither falsy nor -1.
FeaturesFor(sample_data, w) ==
    LET num_repeated_bytes == Len(sample_data) - w
        deduplicated == PySlice(sample_data, 0, w)
        asString == Len(deduplicated) <= MAX_STRING_FEATURE_SIZE
    IN  \* repeat_ratio = len/w < 1.25, as exact rationals.
        IF \/ Len(sample_data) * MIN_RATIO_DEN < MIN_RATIO_NUM * w
           \/ num_repeated_bytes < MIN_BYTES_REPEATED
        THEN [features |-> <<>>, children |-> <<>>]
        ELSE [features |->
                 << [rep_byte_data_size   |-> w,
                     rep_byte_excess_size |-> num_repeated_bytes,
                     rep_byte_ratio       |-> <<Len(sample_data), w>>,
                     tag                  |-> "repeated_bytes",
                     rep_byte_data        |->
                         IF asString THEN <<[repr_of |-> deduplicated]>>
                                     ELSE <<>>] >>,
              children |-> IF asString THEN <<>> ELSE <<deduplicated>>]

\* execute(), lines 38-84, once data_repeats(sample_data) has returned.
Execute ==
    /\ pc = "done"
    /\ pc' = "executed"
    /\ LET out == IF width = None \/ width = 0 THEN [features |-> <<>>, children |-> <<>>]
                  ELSE IF width = -1 THEN [features |-> <<>>, children |-> <<>>]
                  ELSE FeaturesFor(data, width)
       IN  /\ features' = out.features
           /\ children' = out.children
    /\ UNCHANGED <<data, MAXIMUM_WIDTH_ATTEMPTS, offset, attempts, tested, width, exit>>
    /\ UNCHANGED callVars

Next ==
    \/ Force
    \/ ReturnTooShort
    \/ EnterBruteForce
    \/ EnterGenerator
    \/ BruteFound
    \/ BruteNext
    \/ BruteExhausted
    \/ GenExhausted
    \/ GenFound
    \/ GenAbort
    \/ GenNext
    \/ TailScan
    \/ Execute

Spec == Init /\ [][Next]_vars

\* --------------------------------------------- the functions called directly

\* A caller holds a buffer and calls one function of repeated_bytes.py.
InitFn ==
    /\ data \in Buffers
    /\ MAXIMUM_WIDTH_ATTEMPTS = MaxAttempts
    /\ pc = "fn"
    /\ Idle

Called(f, a, r) ==
    /\ pc = "fn"
    /\ pc' = "fn_done"
    /\ fn' = f
    /\ arg' = a
    /\ ret' = r
    /\ UNCHANGED <<data, MAXIMUM_WIDTH_ATTEMPTS, offset, attempts, tested, width, exit>>
    /\ UNCHANGED pluginVars

CallExactly ==
    \E n \in 1..MaxN :
        Called("data_repeats_exactly_n_times", n,
               data_repeats_exactly_n_times(data, n))

CallRecursive ==
    \E n \in 1..MaxN :
        Called("data_repeats_exactly_n_times_recursive", n,
               data_repeats_exactly_n_times_recursive(data, n))

CallWithWidth ==
    \E w \in 1..Len(data) :
        Called("data_repeats_with_width", w, data_repeats_with_width(data, w))

CallFindWidths ==
    Called("find_possible_repeat_widths", 0, find_possible_repeat_widths(data))

CallTailCheck ==
    Called("check_for_minimal_repeat_at_end", 0,
           check_for_minimal_repeat_at_end(data))

NextFn ==
    \/ CallExactly
    \/ CallRecursive
    \/ CallWithWidth
    \/ CallFindWidths
    \/ CallTailCheck

SpecFn == InitFn /\ [][NextFn]_vars

\* Both uses of the package: the plugin's run of data_repeats, and a direct
\* call of one of its functions.
InitAll == Init \/ InitFn

NextAll == Next \/ NextFn

SpecAll == InitAll /\ [][NextAll]_vars

\* ================================================================= claims

\* data_repeats has returned.
Returned == pc \in {"done", "executed"}

\* data_repeats has returned a width.
Found == Returned /\ width # None /\ width # ABORTED

\* d has period W: every byte equals the byte W places before it.
HasPeriod(d, W) == \A i \in 1..Len(d) : d[i] = d[((i - 1) % W) + 1]

\* d is n copies of a non-empty block.
IsCopies(d, n) ==
    /\ Len(d) > 0
    /\ Len(d) % n = 0
    /\ HasPeriod(d, Len(d) \div n)

\* d's last r bytes equal its first r bytes, and the rest is whole chunks of
\* W bytes each equal to the first.
SplitsAt(d, W) ==
    LET r == Len(d) % W
    IN  /\ SubSeq(d, 1, r) = SubSeq(d, Len(d) - r + 1, Len(d))
        /\ \A j \in 0..((Len(d) \div W) - 1) :
               SubSeq(d, j * W + 1, (j + 1) * W) = SubSeq(d, 1, W)

\* C1: a width returned by data_repeats, on whichever path, is a period of
\* the buffer: data[i] = data[i mod W] for every i, and equivalently the
\* fractional tail equals the head and the rest is identical chunks of W.
C1_RoundTrip ==
    Found => /\ width >= 1
             /\ HasPeriod(data, width)
             /\ SplitsAt(data, width)

\* C1 witness: the tail scanner produced the width, with a tail of two bytes.
C1_Witness ==
    /\ exit = "tail_found"
    /\ width = Len(data) - 2
    /\ \E i \in 1..Len(data) : data[i] # data[1]

\* C2: for a buffer longer than SEARCH_BLOCK_SIZE, no width from
\* SEARCH_BLOCK_SIZE up to the returned one also repeats.
C2_MinimalAboveBlock ==
    (Found /\ Len(data) > SEARCH_BLOCK_SIZE)
        => \A V \in SEARCH_BLOCK_SIZE..(width - 1) :
               ~ data_repeats_with_width(data, V)

\* C2 witness: a width above SEARCH_BLOCK_SIZE was returned after a smaller
\* candidate, itself no smaller than SEARCH_BLOCK_SIZE, was tried and failed.
C2_Witness ==
    /\ Found
    /\ Len(data) > SEARCH_BLOCK_SIZE
    /\ width > SEARCH_BLOCK_SIZE
    /\ \E j \in 1..Len(tested) :
           tested[j] >= SEARCH_BLOCK_SIZE /\ tested[j] < width

\* C3: the recursive validator returns what the iterative one returns, for
\* every buffer and every n >= 1.
C3_ValidatorsAgree ==
    (pc = "fn_done" /\ fn = "data_repeats_exactly_n_times_recursive")
        => ret = data_repeats_exactly_n_times(data, arg)

\* C3 witness: the recursive validator accepted four copies of a block of
\* two different bytes (prime factors 2, 2).
C3_Witness ==
    /\ pc = "fn_done"
    /\ fn = "data_repeats_exactly_n_times_recursive"
    /\ arg = 4
    /\ Len(data) = 8
    /\ data[1] # data[2]
    /\ ret = TRUE

\* C4 as claimed: n copies of a non-empty block validate at n, and with any
\* one byte appended they do not, for every n >= 1.
C4_AsClaimed ==
    (pc = "fn_done" /\ fn = "data_repeats_exactly_n_times")
        => /\ IsCopies(data, arg) => ret = TRUE
           /\ (Len(data) >= 2 /\ IsCopies(SubSeq(data, 1, Len(data) - 1), arg))
                  => ret = FALSE

\* C4 amended: n copies of a non-empty block validate at n for every n >= 1;
\* with one byte appended they do not validate for n >= 2, and do for n = 1.
C4_Amended ==
    (pc = "fn_done" /\ fn = "data_repeats_exactly_n_times")
        => /\ IsCopies(data, arg) => ret = TRUE
           /\ (Len(data) >= 2 /\ IsCopies(SubSeq(data, 1, Len(data) - 1), arg))
                  => ret = (arg = 1)

\* C4 witness: three copies of a block plus one byte were rejected at n = 3.
C4_Witness ==
    /\ pc = "fn_done"
    /\ fn = "data_repeats_exactly_n_times"
    /\ arg = 3
    /\ Len(data) = 7
    /\ IsCopies(SubSeq(data, 1, 6), 3)
    /\ ret = FALSE

\* C5: a block of W bytes repeated k >= 1 times and followed by its first r
\* bytes, 0 <= r < W, repeats with width W.
C5_FractionalAccepted ==
    (/\ pc = "fn_done"
     /\ fn = "data_repeats_with_width"
     /\ HasPeriod(data, arg))
        => ret = TRUE

\* C5 witness: two and a half copies of a block of two different bytes.
C5_Witness ==
    /\ pc = "fn_done"
    /\ fn = "data_repeats_with_width"
    /\ arg = 2
    /\ Len(data) = 5
    /\ data[1] # data[2]
    /\ ret = TRUE

\* The tail scanner is about to run, or has run.
TailReached == pc = "tail" \/ exit \in {"tail_found", "tail_none"}

\* The generator's first m offsets exist and all fail the width check.
FirstFail(d, m) ==
    LET offs == find_possible_repeat_widths(d)
    IN  /\ Len(offs) >= m
        /\ \A j \in 1..m : ~ data_repeats_with_width(d, offs[j])

\* C6: with len(data) > SEARCH_BLOCK_SIZE and a finite ceiling, data_repeats
\* returns -1 exactly when the generator yields at least that many offsets
\* and the first of them all fail; an aborted search never reached the tail
\* scanner, which runs only once the generator is exhausted with no match
\* and fewer failed attempts than the ceiling.
C6_AbortCondition ==
    (Len(data) > SEARCH_BLOCK_SIZE /\ MAXIMUM_WIDTH_ATTEMPTS # None)
        => /\ Returned =>
                  (width = ABORTED <=> FirstFail(data, MAXIMUM_WIDTH_ATTEMPTS))
           /\ width = ABORTED => (exit = "abort" /\ ~ TailReached)
           /\ TailReached =>
                  /\ tested = find_possible_repeat_widths(data)
                  /\ FirstFail(data, Len(tested))
                  /\ attempts = Len(tested)
                  /\ attempts < MAXIMUM_WIDTH_ATTEMPTS

\* C6 witness: aborted on the last offset the generator had to give, after
\* more than one failed attempt.
C6_Witness ==
    /\ exit = "abort"
    /\ width = ABORTED
    /\ MAXIMUM_WIDTH_ATTEMPTS >= 2
    /\ Len(find_possible_repeat_widths(data)) = MAXIMUM_WIDTH_ATTEMPTS

\* N >= 1 copies of one byte followed by one different byte.
Degenerate(d) ==
    /\ Len(d) >= 2
    /\ \A i \in 1..(Len(d) - 1) : d[i] = d[1]
    /\ d[Len(d)] # d[1]

\* C7: N copies of a byte and then a different byte, with N minus
\* SEARCH_BLOCK_SIZE at least the (finite) ceiling: data_repeats returns -1
\* and execute emits nothing.
C7_DegenerateAborted ==
    (/\ Degenerate(data)
     /\ MAXIMUM_WIDTH_ATTEMPTS # None
     /\ (Len(data) - 1) - SEARCH_BLOCK_SIZE >= MAXIMUM_WIDTH_ATTEMPTS)
        => /\ Returned => width = ABORTED
           /\ pc = "executed" => (features = <<>> /\ children = <<>>)

\* C7 witness: execute has run on such a buffer with N - SEARCH_BLOCK_SIZE
\* above a ceiling of two.
C7_Witness ==
    /\ pc = "executed"
    /\ Degenerate(data)
    /\ MAXIMUM_WIDTH_ATTEMPTS = 2
    /\ (Len(data) - 1) - SEARCH_BLOCK_SIZE > MAXIMUM_WIDTH_ATTEMPTS
    /\ width = ABORTED
    /\ features = <<>>

\* C8: with the ceiling None, data_repeats never returns -1; on the
\* generator path it returns from a match or from the tail scan, and the
\* tail scan runs only after every offset of the generator was tried.
C8_UnlimitedNeverAborts ==
    MAXIMUM_WIDTH_ATTEMPTS = None
        => /\ width # ABORTED
           /\ exit # "abort"
           /\ (Returned /\ Len(data) > SEARCH_BLOCK_SIZE)
                  => exit \in {"gen_found", "tail_found", "tail_none"}
           /\ TailReached => tested = find_possible_repeat_widths(data)

\* C8 witness: with the ceiling None the search ended in "not found" after
\* more failed attempts than any finite ceiling tried.
C8_Witness ==
    /\ MAXIMUM_WIDTH_ATTEMPTS = None
    /\ exit = "tail_none"
    /\ width = None
    /\ attempts > MaxAttempts

\* C9: a width returned by data_repeats is at least 1 and less than
\* len(data).
C9_WidthRange ==
    Found => (1 <= width /\ width < Len(data))

\* C9 witness: the tail scanner returned len(data) - 1, the largest width.
C9_Witness ==
    /\ exit = "tail_found"
    /\ width = Len(data) - 1

\* C10: for len(data) <= SEARCH_BLOCK_SIZE, data_repeats returns the
\* smallest width in 1..len(data)-1 that passes data_repeats_with_width,
\* None when there is none, and never -1.
C10_SmallBuffer ==
    (Returned /\ Len(data) <= SEARCH_BLOCK_SIZE)
        => LET ok == {W \in 1..(Len(data) - 1) :
                          data_repeats_with_width(data, W)}
           IN  /\ width = IF ok = {} THEN None ELSE Min(ok)
               /\ width # ABORTED
               /\ tested = <<>>

\* C10 witness: brute force returned width 2 after width 1 failed, under a
\* ceiling of one attempt.
C10_Witness ==
    /\ exit = "brute_found"
    /\ Len(data) <= SEARCH_BLOCK_SIZE
    /\ width = 2
    /\ MAXIMUM_WIDTH_ATTEMPTS = 1

\* d is core_data + core_data[:r] with len(core_data) = m, 2 <= m <=
\* SEARCH_BLOCK_SIZE and 1 <= r < m.
PrefixAppended(d, m) ==
    /\ m \in 2..SEARCH_BLOCK_SIZE
    /\ (Len(d) - m) \in 1..(m - 1)
    /\ HasPeriod(d, m)

\* check_for_minimal_repeat_at_end(data) was called directly and returned.
TailCheckReturned ==
    pc = "fn_done" /\ fn = "check_for_minimal_repeat_at_end"

\* C11 as claimed: on core_data + core_data[:r], for every core_data, both
\* check_for_minimal_repeat_at_end and data_repeats return len(core_data).
C11_AsClaimed ==
    \A m \in 2..SEARCH_BLOCK_SIZE :
        PrefixAppended(data, m)
            => /\ TailCheckReturned => ret = m
               /\ Returned => width = m

\* C11 amended: the same, for every core_data such that no width below
\* len(core_data) is a period of the input (as when the bytes of core_data
\* are pairwise distinct).
C11_Amended ==
    \A m \in 2..SEARCH_BLOCK_SIZE :
        (/\ PrefixAppended(data, m)
         /\ \A p \in 1..(m - 1) : ~ HasPeriod(data, p))
            => /\ TailCheckReturned => ret = m
               /\ Returned => width = m

\* C11 witness: data_repeats, under a ceiling of one attempt, returned
\* SEARCH_BLOCK_SIZE from the tail scan on a core of SEARCH_BLOCK_SIZE bytes
\* followed by its first SEARCH_BLOCK_SIZE - 1 bytes.
C11_Witness ==
    /\ exit = "tail_found"
    /\ MAXIMUM_WIDTH_ATTEMPTS = 1
    /\ PrefixAppended(data, SEARCH_BLOCK_SIZE)
    /\ Len(data) = 2 * SEARCH_BLOCK_SIZE - 1
    /\ \A p \in 1..(SEARCH_BLOCK_SIZE - 1) : ~ HasPeriod(data, p)
    /\ width = SEARCH_BLOCK_SIZE

\* The width returned clears both thresholds of the plugin: at least
\* MIN_BYTES_REPEATED excess bytes, and a ratio len/W of at least 5/4.
Significant ==
    /\ Found
    /\ Len(data) - width >= MIN_BYTES_REPEATED
    /\ MIN_RATIO_DEN * Len(data) >= MIN_RATIO_NUM * width

C12_OnlyExcess ==
    /\ pc = "executed"
    /\ Found
    /\ Len(data) - width >= MIN_BYTES_REPEATED
    /\ MIN_RATIO_DEN * Len(data) < MIN_RATIO_NUM * width

\* A width was returned that clears the ratio threshold and not the excess.
C12_OnlyRatio ==
    /\ pc = "executed"
    /\ Found
    /\ Len(data) - width < MIN_BYTES_REPEATED
    /\ MIN_RATIO_DEN * Len(data) >= MIN_RATIO_NUM * width

\* A function of the package was called directly and has returned.
FnReturned(f) == pc = "fn_done" /\ fn = f

\* The elements of a sequence.
Range(q) == {q[j] : j \in 1..Len(q)}

\* The offsets o >= 1 of d at which its anchor block, the first
\* SEARCH_BLOCK_SIZE bytes (all of d when it is shorter), occurs again.
AnchorOffsets(d) ==
    LET k == IF Len(d) < SEARCH_BLOCK_SIZE THEN Len(d) ELSE SEARCH_BLOCK_SIZE
    IN  {o \in 1..Len(d) :
            /\ o + k <= Len(d)
            /\ \A i \in 1..k : d[o + i] = d[i]}

\* C13: find_possible_repeat_widths yields, in strictly increasing order,
\* exactly the offsets o >= 1 at which the anchor block occurs again; for
\* len(data) > SEARCH_BLOCK_SIZE they lie in 1..len(data)-SEARCH_BLOCK_SIZE.
C13_GeneratorOutput ==
    FnReturned("find_possible_repeat_widths")
        => /\ \A j \in 1..(Len(ret) - 1) : ret[j] < ret[j + 1]
           /\ Range(ret) = AnchorOffsets(data)
           /\ Len(data) > SEARCH_BLOCK_SIZE
                  => Range(ret) \subseteq 1..(Len(data) - SEARCH_BLOCK_SIZE)

\* C13 witness: two offsets that are not adjacent were yielded, and the
\* first offset of the buffer was not.
C13_Witness ==
    /\ FnReturned("find_possible_repeat_widths")
    /\ Len(ret) >= 2
    /\ ret[1] > 1
    /\ ret[2] > ret[1] + 1

\* C14 as claimed: for len(data) > SEARCH_BLOCK_SIZE, every width P with
\* SEARCH_BLOCK_SIZE <= P < len(data) at which the data repeats is yielded.
C14_AsClaimed ==
    (FnReturned("find_possible_repeat_widths") /\ Len(data) > SEARCH_BLOCK_SIZE)
        => \A P \in SEARCH_BLOCK_SIZE..(Len(data) - 1) :
               data_repeats_with_width(data, P) => P \in Range(ret)

\* C14 amended: the same for SEARCH_BLOCK_SIZE <= P <= len(data) -
\* SEARCH_BLOCK_SIZE, the widths that leave room for the whole anchor.
C14_Amended ==
    (FnReturned("find_possible_repeat_widths") /\ Len(data) > SEARCH_BLOCK_SIZE)
        => \A P \in SEARCH_BLOCK_SIZE..(Len(data) - SEARCH_BLOCK_SIZE) :
               data_repeats_with_width(data, P) => P \in Range(ret)

\* C14 witness: a period of at least SEARCH_BLOCK_SIZE was yielded second,
\* after an offset that is no period.
C14_Witness ==
    /\ FnReturned("find_possible_repeat_widths")
    /\ Len(ret) >= 2
    /\ ret[2] >= SEARCH_BLOCK_SIZE
    /\ ret[2] <= Len(data) - SEARCH_BLOCK_SIZE
    /\ data_repeats_with_width(data, ret[2])
    /\ ~ data_repeats_with_width(data, ret[1])

\* The sizes s of 1..min(SEARCH_BLOCK_SIZE-1, len(d)-1) for which the last s
\* bytes of d equal its first s bytes.
MatchingTails(d) ==
    {s \in 1..Min({SEARCH_BLOCK_SIZE - 1, Len(d) - 1}) :
        SubSeq(d, Len(d) - s + 1, Len(d)) = SubSeq(d, 1, s)}

\* C15: check_for_minimal_repeat_at_end returns len(data) - s for the
\* largest such s, and None when there is none.
C15_TailScanResult ==
    FnReturned("check_for_minimal_repeat_at_end")
        => ret = IF MatchingTails(data) = {} THEN None
                 ELSE Len(data) - Max(MatchingTails(data))

\* C15 witness: two sizes matched and the larger one decided the result.
C15_Witness ==
    /\ FnReturned("check_for_minimal_repeat_at_end")
    /\ Cardinality(MatchingTails(data)) >= 2
    /\ \E i \in 1..Len(data) : data[i] # data[1]
    /\ ret = Len(data) - Max(MatchingTails(data))

\* C16: with a finite ceiling, on the generator path the attempts counter
\* never exceeds the ceiling, it counts exactly the candidate widths that
\* failed the width check, and no more candidates than the ceiling are
\* handed to data_repeats_with_width; the candidates are the generator's
\* offsets in order.
C16_AttemptBudget ==
    (MAXIMUM_WIDTH_ATTEMPTS # None /\ Len(data) > SEARCH_BLOCK_SIZE)
        => /\ attempts <= MAXIMUM_WIDTH_ATTEMPTS
           /\ Len(tested) <= MAXIMUM_WIDTH_ATTEMPTS
           /\ attempts = Cardinality({j \in 1..Len(tested) :
                             ~ data_repeats_with_width(data, tested[j])})
           /\ tested = SubSeq(find_possible_repeat_widths(data), 1, Len(tested))

\* C16 witness: the last candidate the ceiling allowed was tried and matched,
\* after one less failed attempts than the ceiling.
C16_Witness ==
    /\ exit = "gen_found"
    /\ MAXIMUM_WIDTH_ATTEMPTS >= 2
    /\ Len(tested) = MAXIMUM_WIDTH_ATTEMPTS
    /\ attempts = MAXIMUM_WIDTH_ATTEMPTS - 1

\* The widths W of 1..len(d)-1 with d[i] = d[i+W] for every i < len(d) - W.
Periods(d) ==
    {W \in 1..(Len(d) - 1) : \A i \in 1..(Len(d) - W) : d[i] = d[i + W]}

\* d is a block of m pairwise distinct bytes extended cyclically.
DistinctBlock(d, m) ==
    /\ m <= Len(d)
    /\ HasPeriod(d, m)
    /\ \A i, j \in 1..m : i # j => d[i] # d[j]

\* C17: unless it aborts, data_repeats returns the smallest period of the
\* buffer among all widths 1..len(data)-1, and None exactly when there is
\* none; a block of m distinct bytes extended cyclically gives m when it is
\* longer than m and None when it is not (and never aborts).
C17_GlobalMinimalPeriod ==
    Returned
        => /\ width # ABORTED =>
                  width = IF Periods(data) = {} THEN None
                          ELSE Min(Periods(data))
           /\ \A m \in 1..Len(data) :
                  DistinctBlock(data, m)
                      => width = IF Len(data) = m THEN None ELSE m

\* C17 witness: on the generator path a period below SEARCH_BLOCK_SIZE was
\* returned, under a ceiling of one attempt.
C17_Witness ==
    /\ exit = "gen_found"
    /\ MAXIMUM_WIDTH_ATTEMPTS = 1
    /\ width = SEARCH_BLOCK_SIZE - 1
    /\ width = Min(Periods(data))

====
